---- MODULE Spec2Model ----
(***************************************************************************)
(* Model of src/trading_strategies.py: one run of the script, from the     *)
(* strategy selectbox through load_data, the strategy branches, the        *)
(* cumulative returns and the performance summary.                         *)
(*                                                                         *)
(* Numbers.  A pandas float is modelled as a pair <<n, d>>: a normalised   *)
(* rational n/d when d > 0, and the three non-finite floats when d = 0     *)
(* (<<0,0>> is NaN, <<1,0>> is +inf, <<-1,0>> is -inf).  Arithmetic is     *)
(* exact: the rounding of binary floating point is outside the model.      *)
(* A series is a sequence indexed 1..n; index 1 is the first row.          *)
(* A DataFrame is a function from column names to series.                  *)
(*                                                                         *)
(* The slider limits of the script (5..50, 50..200, ...) are scaled down   *)
(* together with the series length, so that windows fill inside a series   *)
(* of MaxLen rows; the shape of the ranges is kept.                        *)
(***************************************************************************)
EXTENDS Integers, Sequences, FiniteSets, TLC

VARIABLES strategy, params, data, pc, outcome, total_return, strategy_return

vars == <<strategy, params, data, pc, outcome, total_return, strategy_return>>

\* ----------------------------------------------------------------- bounds
MaxLen == 4
MaxPrice == 3
MaxWindow == 2
MaxSpan == 2

\* ------------------------------------------------------------ float values
NaN == <<0, 0>>
Zero == <<0, 1>>
One == <<1, 1>>

Abs(x) == IF x < 0 THEN -x ELSE x
Sgn(x) == IF x > 0 THEN 1 ELSE IF x < 0 THEN -1 ELSE 0

RECURSIVE GCD(_, _)
GCD(a, b) == IF b = 0 THEN a ELSE GCD(b, a % b)

Norm(n, d) == LET g == GCD(Abs(n), d) IN <<n \div g, d \div g>>

Float(i) == <<i, 1>>
IsNaN(x) == x = NaN
IsFinite(x) == x[2] # 0

Neg(x) == <<-x[1], x[2]>>

Add(x, y) ==
  IF IsNaN(x) \/ IsNaN(y) THEN NaN
  ELSE IF ~IsFinite(x) /\ ~IsFinite(y) THEN (IF x = y THEN x ELSE NaN)
  ELSE IF ~IsFinite(x) THEN x
  ELSE IF ~IsFinite(y) THEN y
  ELSE LET g == GCD(x[2], y[2])
           l == (x[2] \div g) * y[2]
       IN Norm(x[1] * (l \div x[2]) + y[1] * (l \div y[2]), l)

Sub(x, y) == Add(x, Neg(y))

Mul(x, y) ==
  IF IsNaN(x) \/ IsNaN(y) THEN NaN
  ELSE IF ~IsFinite(x) \/ ~IsFinite(y)
       THEN (IF Sgn(x[1]) * Sgn(y[1]) = 0 THEN NaN ELSE <<Sgn(x[1]) * Sgn(y[1]), 0>>)
  ELSE Norm(x[1] * y[1], x[2] * y[2])

\* Variants of Div: x/0 undefined; 0/0 taken as 0.
DivNoInf(x, y) ==
  IF IsNaN(x) \/ IsNaN(y) THEN NaN
  ELSE IF ~IsFinite(y) THEN (IF IsFinite(x) THEN Zero ELSE NaN)
  ELSE IF ~IsFinite(x) THEN <<x[1] * (IF y[1] < 0 THEN -1 ELSE 1), 0>>
  ELSE IF y[1] = 0 THEN NaN
  ELSE Norm(x[1] * y[2] * Sgn(y[1]), x[2] * Abs(y[1]))

DivZeroByZero(x, y) ==
  IF IsNaN(x) \/ IsNaN(y) THEN NaN
  ELSE IF ~IsFinite(y) THEN (IF IsFinite(x) THEN Zero ELSE NaN)
  ELSE IF ~IsFinite(x) THEN <<x[1] * (IF y[1] < 0 THEN -1 ELSE 1), 0>>
  ELSE IF y[1] = 0 THEN (IF x[1] = 0 THEN Zero ELSE <<Sgn(x[1]), 0>>)
  ELSE Norm(x[1] * y[2] * Sgn(y[1]), x[2] * Abs(y[1]))

\* Float division never raises: x/0 is +-inf, 0/0 is NaN, x/inf is 0.
Div(x, y) ==
  IF IsNaN(x) \/ IsNaN(y) THEN NaN
  ELSE IF ~IsFinite(y) THEN (IF IsFinite(x) THEN Zero ELSE NaN)
  ELSE IF ~IsFinite(x) THEN <<x[1] * (IF y[1] < 0 THEN -1 ELSE 1), 0>>
  ELSE IF y[1] = 0 THEN (IF x[1] = 0 THEN NaN ELSE <<Sgn(x[1]), 0>>)
  ELSE Norm(x[1] * y[2] * Sgn(y[1]), x[2] * Abs(y[1]))

\* Variant of Gt: NaN compared as 0.
GtNaNAsZero(x, y) ==
  Sub(IF IsNaN(x) THEN Zero ELSE x, IF IsNaN(y) THEN Zero ELSE y)[1] > 0

\* Comparisons with NaN on either side are False.
Gt(x, y) == ~IsNaN(x) /\ ~IsNaN(y) /\ Sub(x, y)[1] > 0
Lt(x, y) == ~IsNaN(x) /\ ~IsNaN(y) /\ Sub(x, y)[1] < 0

\* Variant of Le: equality left out.
LeStrict(x, y) == ~IsNaN(x) /\ ~IsNaN(y) /\ Sub(x, y)[1] < 0

Le(x, y) == ~IsNaN(x) /\ ~IsNaN(y) /\ Sub(x, y)[1] <= 0

\* ------------------------------------------------------------ pandas series
Idx(s) == 1..Len(s)

\* Series.shift(1): row t takes the value of row t-1, the first row is NaN.
Shift(s) == [t \in Idx(s) |-> IF t = 1 THEN NaN ELSE s[t - 1]]

\* int64 column -> float64, as shift() and the product with Return do.
AsFloat(s) == [t \in Idx(s) |-> Float(s[t])]

SMul(a, b) == [t \in Idx(a) |-> Mul(a[t], b[t])]
SSub(a, b) == [t \in Idx(a) |-> Sub(a[t], b[t])]
SDiv(a, b) == [t \in Idx(a) |-> Div(a[t], b[t])]
OnePlus(s) == [t \in Idx(s) |-> Add(One, s[t])]

\* Series.pct_change(): close[t]/close[t-1] - 1, NaN in the first row.
PctChange(c) == SSub(SDiv(c, Shift(c)), [t \in Idx(c) |-> One])

\* Series.diff(): close[t] - close[t-1], NaN in the first row.
Diff(c) == SSub(c, Shift(c))

\* Sum of rows lo..hi with NaN propagating (a window's sum).
RECURSIVE SumRange(_, _, _)
SumRange(s, lo, hi) == IF hi < lo THEN Zero ELSE Add(SumRange(s, lo, hi - 1), s[hi])

\* Series.rolling(window=w).mean(): NaN until w rows are in the window.
RollingMean(s, w) ==
  [t \in Idx(s) |-> IF t < w THEN NaN ELSE Div(SumRange(s, t - w + 1, t), Float(w))]

\* Series.ewm(span, adjust=False).mean(): y[1] = x[1],
\* y[t] = (1 - a) y[t-1] + a x[t] with a = 2 / (span + 1).
Alpha(span) == Div(Float(2), Float(span + 1))

RECURSIVE EwmAt(_, _, _)
EwmAt(s, span, t) ==
  IF t = 1 THEN s[1]
  ELSE Add(Mul(Sub(One, Alpha(span)), EwmAt(s, span, t - 1)), Mul(Alpha(span), s[t]))

Ewm(s, span) == [t \in Idx(s) |-> EwmAt(s, span, t)]

\* Product of the non-NaN rows among 1..k.
RECURSIVE ProdTo(_, _)
ProdTo(s, k) ==
  IF k = 0 THEN One
  ELSE IF IsNaN(s[k]) THEN ProdTo(s, k - 1)
  ELSE Mul(ProdTo(s, k - 1), s[k])

RECURSIVE ProdAllTo(_, _)
ProdAllTo(s, k) == IF k = 0 THEN One ELSE Mul(ProdAllTo(s, k - 1), s[k])

CumprodNaNPoisons(s) == [t \in Idx(s) |-> ProdAllTo(s, t)]

\* Series.cumprod() (skipna=True): a NaN row stays NaN in the result and is
\* left out of the running product.
Cumprod(s) == [t \in Idx(s) |-> IF IsNaN(s[t]) THEN NaN ELSE ProdTo(s, t)]

\* Series.sum() (skipna=True): NaN rows are skipped, an all-NaN series sums to 0.
RECURSIVE SumTo(_, _)
SumTo(s, k) ==
  IF k = 0 THEN Zero
  ELSE IF IsNaN(s[k]) THEN SumTo(s, k - 1)
  ELSE Add(SumTo(s, k - 1), s[k])

SumFromCumulative(s) == IF Len(s) = 0 THEN Zero ELSE Sub(ProdTo(OnePlus(s), Len(s)), One)

Sum(s) == SumTo(s, Len(s))

\* delta.where(cond, 0): rows where cond is False (NaN rows included) become 0.
WherePositive(d) == [t \in Idx(d) |-> IF Gt(d[t], Zero) THEN d[t] ELSE Zero]
WhereNegative(d) == [t \in Idx(d) |-> IF Lt(d[t], Zero) THEN d[t] ELSE Zero]
SNeg(s) == [t \in Idx(s) |-> Neg(s[t])]

\* data["Signal"] = 0, then data.loc[mask, "Signal"] = v.
ZeroSignal(n) == [t \in 1..n |-> 0]
SetWhere(sig, mask, v) == [t \in Idx(sig) |-> IF mask[t] THEN v ELSE sig[t]]

\* -------------------------------------------------------------- the script
\* The options of the strategy selectbox.
MA == "Moving Averages"
RSI == "RSI (Relative Strength Index)"
MACD == "MACD (Moving Average Convergence Divergence)"
StrategyOptions == {MA, RSI, MACD}

\* What yf.download can return: no rows, or up to MaxLen positive closes.
PriceSeries == UNION {[1..n -> 1..MaxPrice] : n \in 0..MaxLen}

\* The slider ranges, scaled: short 5..50 and long 50..200 meet at one value;
\* the RSI period is 5..50; the EMA spans are 5..50, 20..200 and 5..20.
ShortWindows == 1..MaxWindow
LongWindows == MaxWindow..(MaxWindow + 1)
RsiPeriods == 1..MaxWindow
ShortSpans == 1..MaxSpan
LongSpans == 2..(MaxSpan + 1)
SignalSpans == 1..MaxSpan

Unset == <<>>
NoFrame == <<>>

Columns(d) == DOMAIN d

\* load_data: the downloaded closes and their simple returns.
LoadFrame(closes) ==
  [Close |-> AsFloat(closes), Return |-> PctChange(AsFloat(closes))]

\* data.empty
DataEmptyNever(d) == FALSE

DataEmpty(d) == Len(d["Close"]) = 0

\* Signal.shift(1) * Return
StrategyReturnNoLag(signal, ret) == SMul(AsFloat(signal), ret)

StrategyReturn(signal, ret) == SMul(Shift(AsFloat(signal)), ret)

\* Signal = 0; 1 where Short_MA > Long_MA; -1 where Short_MA <= Long_MA.
MASignal(short, long) ==
  LET s1 == SetWhere(ZeroSignal(Len(short)), [t \in Idx(short) |-> Gt(short[t], long[t])], 1)
  IN SetWhere(s1, [t \in Idx(short) |-> Le(short[t], long[t])], -1)

MAFrame(d, short_window, long_window) ==
  LET short == RollingMean(d["Close"], short_window)
      long == RollingMean(d["Close"], long_window)
      signal == MASignal(short, long)
  IN [Short_MA |-> short, Long_MA |-> long, Signal |-> signal,
      Strategy_Return |-> StrategyReturn(signal, d["Return"])] @@ d

\* RSI = 100 - 100 / (1 + gain / loss) over the trailing rsi_period deltas.
RSISeries(close, rsi_period) ==
  LET delta == Diff(close)
      gain == RollingMean(WherePositive(delta), rsi_period)
      loss == RollingMean(SNeg(WhereNegative(delta)), rsi_period)
      rs == SDiv(gain, loss)
  IN [t \in Idx(close) |-> Sub(Float(100), Div(Float(100), Add(One, rs[t])))]

\* Signal = 0; 1 where RSI < 30; -1 where RSI > 70.
RSISignal(rsi) ==
  LET s1 == SetWhere(ZeroSignal(Len(rsi)), [t \in Idx(rsi) |-> Lt(rsi[t], Float(30))], 1)
  IN SetWhere(s1, [t \in Idx(rsi) |-> Gt(rsi[t], Float(70))], -1)

RSIFrame(d, rsi_period) ==
  LET rsi == RSISeries(d["Close"], rsi_period)
      signal == RSISignal(rsi)
  IN [RSI |-> rsi, Signal |-> signal,
      Strategy_Return |-> StrategyReturn(signal, d["Return"])] @@ d

\* Signal = 0; 1 where MACD > Signal_Line; -1 where MACD < Signal_Line.
MACDSignal(macd, line) ==
  LET s1 == SetWhere(ZeroSignal(Len(macd)), [t \in Idx(macd) |-> Gt(macd[t], line[t])], 1)
  IN SetWhere(s1, [t \in Idx(macd) |-> Lt(macd[t], line[t])], -1)

MACDFrame(d, short_ema, long_ema, signal_period) ==
  LET short == Ewm(d["Close"], short_ema)
      long == Ewm(d["Close"], long_ema)
      macd == SSub(short, long)
      line == Ewm(macd, signal_period)
      signal == MACDSignal(macd, line)
  IN [Short_EMA |-> short, Long_EMA |-> long, MACD |-> macd, Signal_Line |-> line,
      Signal |-> signal,
      Strategy_Return |-> StrategyReturn(signal, d["Return"])] @@ d

Init ==
  /\ strategy = ""
  /\ params = Unset
  /\ data = NoFrame
  /\ pc = "select"
  /\ outcome = "running"
  /\ total_return = Unset
  /\ strategy_return = Unset

\* strategy = st.sidebar.selectbox(...)
SelectStrategy ==
  /\ pc = "select"
  /\ \E s \in StrategyOptions : strategy' = s
  /\ pc' = "load"
  /\ UNCHANGED <<params, data, outcome, total_return, strategy_return>>

\* data = load_data(ticker, start_date, end_date)
LoadData ==
  /\ pc = "load"
  /\ \E closes \in PriceSeries : data' = LoadFrame(closes)
  /\ pc' = "dispatch"
  /\ UNCHANGED <<strategy, params, outcome, total_return, strategy_return>>

\* if data.empty: st.error(...)
NoData ==
  /\ pc = "dispatch"
  /\ DataEmpty(data)
  /\ outcome' = "no_data"
  /\ pc' = "done"
  /\ UNCHANGED <<strategy, params, data, total_return, strategy_return>>

\* else: the if / elif / elif chain on the strategy name, which has no else.
Dispatch ==
  /\ pc = "dispatch"
  /\ ~DataEmpty(data)
  /\ pc' = IF strategy \in {MA, RSI, MACD} THEN "branch" ELSE "cumulative"
  /\ UNCHANGED <<strategy, params, data, outcome, total_return, strategy_return>>

MovingAverages ==
  /\ pc = "branch"
  /\ strategy = MA
  /\ \E sw \in ShortWindows, lw \in LongWindows :
       /\ params' = [short_window |-> sw, long_window |-> lw]
       /\ data' = MAFrame(data, sw, lw)
  /\ pc' = "cumulative"
  /\ UNCHANGED <<strategy, outcome, total_return, strategy_return>>

RSIStrategy ==
  /\ pc = "branch"
  /\ strategy = RSI
  /\ \E p \in RsiPeriods :
       /\ params' = [rsi_period |-> p]
       /\ data' = RSIFrame(data, p)
  /\ pc' = "cumulative"
  /\ UNCHANGED <<strategy, outcome, total_return, strategy_return>>

MACDStrategy ==
  /\ pc = "branch"
  /\ strategy = MACD
  /\ \E se \in ShortSpans, le \in LongSpans, sp \in SignalSpans :
       /\ params' = [short_ema |-> se, long_ema |-> le, signal_period |-> sp]
       /\ data' = MACDFrame(data, se, le, sp)
  /\ pc' = "cumulative"
  /\ UNCHANGED <<strategy, outcome, total_return, strategy_return>>

\* The two cumprod assignments.  The first one is made before the second one
\* reads data["Strategy_Return"], which raises KeyError when no branch ran.
CumulativeReturns ==
  /\ pc = "cumulative"
  /\ LET market == [Cumulative_Market_Return |-> Cumprod(OnePlus(data["Return"]))] @@ data
     IN IF "Strategy_Return" \in Columns(data)
        THEN /\ data' = [Cumulative_Strategy_Return |->
                            Cumprod(OnePlus(data["Strategy_Return"]))] @@ market
             /\ pc' = "summary"
             /\ outcome' = outcome
        ELSE /\ data' = market
             /\ pc' = "done"
             /\ outcome' = "KeyError"
  /\ UNCHANGED <<strategy, params, total_return, strategy_return>>

\* total_return = data["Return"].sum(); strategy_return = data["Strategy_Return"].sum()
PerformanceSummary ==
  /\ pc = "summary"
  /\ total_return' = Sum(data["Return"])
  /\ strategy_return' = Sum(data["Strategy_Return"])
  /\ outcome' = "ok"
  /\ pc' = "done"
  /\ UNCHANGED <<strategy, params, data>>

Next ==
  \/ SelectStrategy
  \/ LoadData
  \/ NoData
  \/ Dispatch
  \/ MovingAverages
  \/ RSIStrategy
  \/ MACDStrategy
  \/ CumulativeReturns
  \/ PerformanceSummary

Spec == Init /\ [][Next]_vars

\* The dispatch block run on a strategy name handed in by a caller (the
\* orchestrator's entry point of the specification): the selectbox options,
\* the fourth name the specification lists, and a name nobody lists.
BOLLINGER == "Bollinger Bands"
CallerNames == StrategyOptions \cup {BOLLINGER, "Momentum"}

CallStrategy ==
  /\ pc = "select"
  /\ \E s \in CallerNames : strategy' = s
  /\ pc' = "load"
  /\ UNCHANGED <<params, data, outcome, total_return, strategy_return>>

NextDispatch ==
  \/ CallStrategy
  \/ LoadData
  \/ NoData
  \/ Dispatch
  \/ MovingAverages
  \/ RSIStrategy
  \/ MACDStrategy
  \/ CumulativeReturns
  \/ PerformanceSummary

SpecDispatch == Init /\ [][NextDispatch]_vars

\* ------------------------------------------------------------------ claims
Has(c) == c \in Columns(data)
Col(c) == data[c]
Rows == IF Has("Close") THEN Idx(Col("Close")) ELSE {}
Finished == pc = "done" /\ outcome = "ok"

\* C1: in every run of Moving Averages, RSI or MACD the strategy return is the
\* signal of the previous row times the return of the row: Strategy_Return
\* has one entry per row, its first entry is absent (not 0, not Signal of the
\* first row times anything), and every later entry t equals
\* Signal[t-1] * Return[t], a defined number.
C1_LaggedStrategyReturn ==
  Has("Strategy_Return") =>
    /\ strategy \in StrategyOptions
    /\ Len(Col("Strategy_Return")) = Len(Col("Close"))
    /\ \A t \in Rows :
         IF t = 1 THEN IsNaN(Col("Strategy_Return")[t])
         ELSE /\ Col("Strategy_Return")[t] = Mul(Float(Col("Signal")[t - 1]), Col("Return")[t])
              /\ IsFinite(Col("Strategy_Return")[t])

\* A finished run in which the lag shows: a row whose signal differs from the
\* previous row's signal and whose strategy return is not zero.
C1_Witness ==
  /\ Finished
  /\ \E t \in Rows : /\ t >= 2
                      /\ Col("Signal")[t] # Col("Signal")[t - 1]
                      /\ Col("Strategy_Return")[t] # Zero

\* The running product of (1 + r[i]) over i <= t in which an absent r[i]
\* counts as the factor 1.
RECURSIVE DefinedProduct(_, _)
DefinedProduct(r, t) ==
  IF t = 0 THEN One
  ELSE Mul(DefinedProduct(r, t - 1), IF IsNaN(r[t]) THEN One ELSE Add(One, r[t]))

CumulativePairs ==
  {p \in {<<"Return", "Cumulative_Market_Return">>,
          <<"Strategy_Return", "Cumulative_Strategy_Return">>} : Has(p[2])}

\* C2 as stated: both cumulative series are defined in every row and equal the
\* product over i <= t of (1 + r[i]) with an absent r[i] counting as 0, so the
\* first row is 1.
C2_Original ==
  \A p \in CumulativePairs : \A t \in Rows :
    /\ ~IsNaN(Col(p[2])[t])
    /\ Col(p[2])[t] = DefinedProduct(Col(p[1]), t)

\* C2 as amended: a cumulative series is absent exactly in the rows where its
\* return is absent (the first row); in every other row it is the product of
\* (1 + r[i]) over the defined r[i] with i <= t, so an absent return does not
\* make the later rows absent.
C2_CumulativeSkipsAbsent ==
  \A p \in CumulativePairs : \A t \in Rows :
    IF IsNaN(Col(p[1])[t]) THEN IsNaN(Col(p[2])[t])
    ELSE Col(p[2])[t] = DefinedProduct(Col(p[1]), t)

\* A finished run of three rows or more whose market and strategy products
\* have both moved away from 1 after the absent first row.
C2_Witness ==
  /\ Finished
  /\ Len(Col("Close")) >= 3
  /\ IsNaN(Col("Return")[1])
  /\ IsNaN(Col("Cumulative_Market_Return")[1])
  /\ Col("Cumulative_Market_Return")[3] \notin {One, NaN}
  /\ Col("Cumulative_Strategy_Return")[3] \notin {One, NaN}

IndicatorColumns ==
  {"Short_MA", "Long_MA", "RSI", "Short_EMA", "Long_EMA", "MACD", "Signal_Line"}
ComputedColumns ==
  IndicatorColumns \cup
    {"Signal", "Strategy_Return", "Cumulative_Market_Return", "Cumulative_Strategy_Return"}

\* The four strategy names of the specification.
SpecStrategyNames == StrategyOptions \cup {BOLLINGER}

C4_NoDataNoComputation ==
  /\ (pc \notin {"select", "load"} /\ Len(Col("Close")) = 0) =>
       /\ pc \in {"dispatch", "done"}
       /\ pc = "done" => outcome = "no_data"
       /\ Columns(data) = {"Close", "Return"}
       /\ params = Unset
       /\ total_return = Unset
       /\ strategy_return = Unset
  /\ (outcome = "no_data") => (pc = "done" /\ Len(Col("Close")) = 0)

\* The run on an empty download has ended, for a chosen strategy.
C4_Witness ==
  /\ pc = "done"
  /\ outcome = "no_data"
  /\ strategy \in StrategyOptions
  /\ Len(Col("Close")) = 0

BothAveragesDefined(t) == ~IsNaN(Col("Short_MA")[t]) /\ ~IsNaN(Col("Long_MA")[t])

\* C5 as stated: the Moving Averages signal is +1 or -1 in every row, the rows
\* before the windows have filled included.
C5_Original ==
  Has("Short_MA") => \A t \in Rows : Col("Signal")[t] \in {1, -1}

\* C5 as amended: in every row where both moving averages are defined (from
\* row long_window on) the signal is +1 when Short_MA > Long_MA and -1 when
\* Short_MA <= Long_MA, never 0; in the rows before that it is 0.
C5_BinaryOnceWindowsFilled ==
  Has("Short_MA") =>
    \A t \in Rows :
      /\ BothAveragesDefined(t) <=> (t >= params.long_window /\ t >= params.short_window)
      /\ IF BothAveragesDefined(t)
         THEN LET diff == Sub(Col("Short_MA")[t], Col("Long_MA")[t])
              IN Col("Signal")[t] = IF diff[1] > 0 THEN 1 ELSE -1
         ELSE Col("Signal")[t] = 0

\* A Moving Averages run with a warm-up row, a row where the averages are
\* equal, a long row and a short row.
C5_Witness ==
  /\ Finished
  /\ strategy = MA
  /\ \E t \in Rows : ~BothAveragesDefined(t) /\ Col("Signal")[t] = 0
  /\ \E t \in Rows : BothAveragesDefined(t) /\ Col("Short_MA")[t] = Col("Long_MA")[t]
                      /\ Col("Signal")[t] = -1
  /\ \E t \in Rows : Col("Signal")[t] = 1

\* An indicator value the strategy's rule reads is absent in row t.
IndicatorAbsent(t) ==
  \/ Has("Short_MA") /\ ~BothAveragesDefined(t)
  \/ Has("RSI") /\ IsNaN(Col("RSI")[t])
  \/ Has("MACD") /\ (IsNaN(Col("MACD")[t]) \/ IsNaN(Col("Signal_Line")[t]))

\* C6: in every strategy, a row in which an indicator value read by the rule is
\* absent (window not yet full, or RSI undefined) has Signal 0, and the run
\* raises nothing.
C6_AbsentIndicatorIsFlat ==
  Has("Signal") =>
    /\ outcome \in {"running", "ok"}
    /\ \A t \in Rows : IndicatorAbsent(t) => Col("Signal")[t] = 0

\* An RSI run with an absent RSI both inside the warm-up and after it (no
\* gain and no loss in the window), and with a row that does trade.
C6_Witness ==
  /\ Finished
  /\ strategy = RSI
  /\ \E t \in Rows : t < params.rsi_period /\ IsNaN(Col("RSI")[t])
  /\ \E t \in Rows : t > params.rsi_period /\ IsNaN(Col("RSI")[t])
  /\ \E t \in Rows : Col("Signal")[t] # 0

\* The rsi_period deltas ending in row t are all strictly positive.
RisingInto(t, period) ==
  /\ t > period
  /\ \A i \in (t - period + 1)..t : Sub(Col("Close")[i], Col("Close")[i - 1])[1] > 0

\* C7: in the RSI strategy, in every row whose trailing rsi_period deltas are
\* all strictly positive, gain / loss is not an error, RSI is exactly 100 and
\* the signal is -1.
C7_RSISaturates ==
  Has("RSI") =>
    /\ outcome \in {"running", "ok"}
    /\ \A t \in Rows :
         RisingInto(t, params.rsi_period) =>
           /\ Col("RSI")[t] = Float(100)
           /\ Col("Signal")[t] = -1

\* An RSI run with a period of two or more whose window is rising in some row,
\* and not in some other row after the warm-up.
C7_Witness ==
  /\ Finished
  /\ strategy = RSI
  /\ params.rsi_period >= 2
  /\ \E t \in Rows : RisingInto(t, params.rsi_period)
  /\ \E t \in Rows : t > params.rsi_period /\ Col("RSI")[t] # Float(100)

ConstantPrice == \A i, j \in Rows : Col("Close")[i] = Col("Close")[j]

\* What C8 says apart from the value of RSI: on a constant price series MACD
\* is 0 and its signal is 0 in every row, the RSI signal is 0 in every row,
\* the Moving Averages signal is -1 once both windows are full, and the total
\* strategy return is 0 in every strategy.
C8_FlatParts ==
  /\ strategy_return = Zero
  /\ Has("RSI") => \A t \in Rows : Col("Signal")[t] = 0
  /\ Has("MACD") => \A t \in Rows : Col("MACD")[t] = Zero /\ Col("Signal")[t] = 0
  /\ Has("Short_MA") => \A t \in Rows : BothAveragesDefined(t) => Col("Signal")[t] = -1

\* C8 as stated: on a constant price series RSI is 50 after the warm-up.
C8_Original ==
  (Finished /\ ConstantPrice) =>
    /\ C8_FlatParts
    /\ Has("RSI") =>
         \A t \in Rows : t >= params.rsi_period => Col("RSI")[t] = Float(50)

\* C8 as amended: on a constant price series RSI is absent in every row (gain
\* and loss are both 0, so gain / loss is 0/0), not 50; the signals and the
\* totals are as the claim says.
C8_ConstantPriceFlat ==
  (Finished /\ ConstantPrice) =>
    /\ C8_FlatParts
    /\ Has("RSI") => \A t \in Rows : IsNaN(Col("RSI")[t])

\* An RSI run on a constant series longer than the period.
C8_Witness ==
  /\ Finished
  /\ ConstantPrice
  /\ strategy = RSI
  /\ Len(Col("Close")) > params.rsi_period + 1

\* The sum of the defined entries of a series, taken over the sub-sequence of
\* its defined entries.
RECURSIVE FoldAdd(_)
FoldAdd(s) == IF s = <<>> THEN Zero ELSE Add(Head(s), FoldAdd(Tail(s)))
IsDefined(x) == ~IsNaN(x)
DefinedSum(s) == FoldAdd(SelectSeq(s, IsDefined))

\* C9: the total market return is the sum of the defined entries of Return and
\* the total strategy return the sum of the defined entries of
\* Strategy_Return.
C9_TotalsAreSimpleSums ==
  Finished =>
    /\ total_return = DefinedSum(Col("Return"))
    /\ strategy_return = DefinedSum(Col("Strategy_Return"))

\* A finished run whose totals are not zero and differ from the compounded
\* returns of the last row.
C9_Witness ==
  /\ Finished
  /\ Len(Col("Close")) >= 3
  /\ total_return \notin {Zero, Sub(Col("Cumulative_Market_Return")[Len(Col("Close"))], One)}
  /\ strategy_return \notin
       {Zero, Sub(Col("Cumulative_Strategy_Return")[Len(Col("Close"))], One)}

====
